---- MODULE Spec2Model ----
(***************************************************************************)
(* Model of the order-event pipeline of the shop backend:                  *)
(*   - OrderSQSService (src/src/services/cacheService.ts, lines 225-418),  *)
(*     the in-memory FIFO queue with deduplication, leases and retries;    *)
(*   - OrderHandlerService (src/src/routes/orders.ts, lines 563-768), the  *)
(*     background consumer that leases batches and applies them.           *)
(* JavaScript runs one callback at a time and none of the queue's methods  *)
(* awaits anything, so every method body is one atomic action.  The        *)
(* handler suspends only while an Order Store or cache call is             *)
(* outstanding; what it does between two such calls runs before any other  *)
(* timer or request is served.  Time is Date.now() in milliseconds; timers *)
(* (setTimeout / setInterval) may fire at any moment at or after the time  *)
(* they are due.                                                           *)
(***************************************************************************)
EXTENDS Integers, Sequences, FiniteSets, TLC

(* ------------------------------ bounds --------------------------------- *)
\* Spec: number of sendMessage calls explored (each call draws one MessageId)
MaxMessages == 2
\* Spec: number of returnMessage calls explored, over all messages
MaxReturns == 1
\* SpecRetry: the same two bounds for one event that keeps failing
RetryMessages == 1
RetryReturns == 3
\* SpecHandler: the same two bounds for the queue driven by the handler
HandlerMessages == 2
HandlerReturns == 2
\* SpecDedup: number of sendMessage calls explored
DedupMessages == 4
\* SpecApply: the two bounds of SpecHandler, for one event of any shape
ApplyMessages == 1
ApplyReturns == 1
\* SpecLive: number of sendMessage calls explored, and the number of handler
\* periods the clock runs for
LiveMessages == 2
LivePeriods == 5
\* SpecStatus: number of sendMessage calls and of returnMessage calls explored
StatusMessages == 2
StatusReturns == 1

\* value of Date.now() when the service is constructed
StartTime == 1000
\* the later instants at which the clock is read: one retry delay after the
\* start, the end of the deduplication window, and one second past it
Instants == {StartTime + 1000, StartTime + 5 * 60 * 1000, StartTime + 5 * 60 * 1000 + 1000}
\* SpecLive: the clock read once per handler period
LiveInstants == {StartTime + i * 1000 : i \in 1..LivePeriods}
\* SpecLive: the last instant at which a route sends an event; the handler's
\* interval fires at least once after it
LastSend == StartTime + (LivePeriods - 1) * 1000

\* the values callers pass as maxNumberOfMessages (the handler passes 5)
BatchSizes == {1, 5}

Tokens == {"t1", "t2"}
\* the arguments of sendMessage: Omit<OrderEvent, 'id' | 'timestamp'>.
\* orderId "" is an absent orderId; data is "none" (absent), "noStatus" (a
\* payload without a status) or "full".
Events == {[type |-> "CREATE", orderId |-> "o1", data |-> "full",
            groupId |-> "orders", deduplicationId |-> "t1"],
           [type |-> "UPDATE", orderId |-> "o1", data |-> "full",
            groupId |-> "orders", deduplicationId |-> "t2"],
           [type |-> "DELETE", orderId |-> "o1", data |-> "none",
            groupId |-> "other", deduplicationId |-> "t1"]}
\* the events the HTTP routes send in SpecHandler: one valid, one that fails
\* validation
HandlerEvents == {[type |-> "CREATE", orderId |-> "o1", data |-> "full",
                   groupId |-> "orders", deduplicationId |-> "t1"],
                  [type |-> "UPDATE", orderId |-> "", data |-> "full",
                   groupId |-> "orders", deduplicationId |-> "t2"]}
\* the events sent in SpecApply: for each type one complete event and one for
\* each way its payload can be incomplete
ApplyEvents == {[type |-> "CREATE", orderId |-> "", data |-> "full",
                 groupId |-> "orders", deduplicationId |-> "t1"],
                [type |-> "CREATE", orderId |-> "", data |-> "none",
                 groupId |-> "orders", deduplicationId |-> "t1"],
                [type |-> "UPDATE", orderId |-> "o1", data |-> "full",
                 groupId |-> "orders", deduplicationId |-> "t1"],
                [type |-> "UPDATE", orderId |-> "", data |-> "full",
                 groupId |-> "orders", deduplicationId |-> "t1"],
                [type |-> "UPDATE", orderId |-> "o1", data |-> "none",
                 groupId |-> "orders", deduplicationId |-> "t1"],
                [type |-> "UPDATE", orderId |-> "o1", data |-> "noStatus",
                 groupId |-> "orders", deduplicationId |-> "t1"],
                [type |-> "DELETE", orderId |-> "o1", data |-> "none",
                 groupId |-> "orders", deduplicationId |-> "t1"],
                [type |-> "DELETE", orderId |-> "", data |-> "none",
                 groupId |-> "orders", deduplicationId |-> "t1"]}

\* the events sent in SpecStatus: one valid, and one whose type is none of the
\* three the handler knows (the type is checked only when the code is compiled)
StatusEvents == {[type |-> "CREATE", orderId |-> "o1", data |-> "full",
                  groupId |-> "orders", deduplicationId |-> "t1"],
                 [type |-> "UNKNOWN", orderId |-> "o1", data |-> "full",
                  groupId |-> "orders", deduplicationId |-> "t2"]}

(* ------------------------- program constants --------------------------- *)
deduplicationWindowMs == 5 * 60 * 1000
maxRetries == 3
retryDelays == <<1000, 5000, 15000>>
cleanupIntervalMs == 60000
processingIntervalMs == 1000
handlerBatchSize == 5

VARIABLES
  queue,               \* OrderEventMessage[]: every accepted message, in push order
  processingQueue,     \* OrderEventMessage[]: the leased messages
  processedMessages,   \* Set<string>: MessageIds acknowledged or dropped
  deduplicationCache,  \* Map<string, number>: token -> timestamp
  timers,              \* pending setTimeout callbacks of returnMessage
  cleanupDue,          \* time the next setInterval sweep is due
  now,                 \* Date.now()
  idCounter,           \* MessageIds generated so far
  rcptCounter,         \* ReceiptHandles generated so far
  ret,                 \* what the last call on the queue, or the last status read, returned or threw
  returned,            \* history: MessageId -> number of returnMessage calls
  leaseOrder,          \* history: MessageIds in the order they were first leased
  delivered,           \* history: <<MessageId, ReceiptHandle>> pairs leased so far
  acknowledged,        \* history: MessageIds a successful deleteMessage acknowledged
  accepted,            \* history: the messages sendMessage added since the last purgeQueue
  lastSeen,            \* history: token -> time of the last sendMessage call with it, since the last purgeQueue
  stored,              \* history: MessageId -> number of Order Store calls for it that succeeded
  isRunning,           \* OrderHandlerService.isRunning
  processingInterval,  \* the live setInterval timers of start(), each the time its next
                       \* tick is due; <<>> when the field is null, else the field is the last
  ticks                \* the processMessages calls that have not returned yet

qvars == <<queue, processingQueue, processedMessages, deduplicationCache, timers,
           cleanupDue, now, idCounter, rcptCounter, ret, returned, leaseOrder,
           delivered, acknowledged, accepted, lastSeen, stored>>
hvars == <<isRunning, processingInterval, ticks>>
vars == <<qvars, hvars>>

(* ------------------------------ helpers -------------------------------- *)
Range(s) == {s[i] : i \in DOMAIN s}

\* Array.prototype.filter
Filter(s, keep(_)) == SelectSeq(s, keep)

\* Array.prototype.slice(0, n)
Slice0(s, n) == SubSeq(s, 1, IF n < Len(s) THEN n ELSE Len(s))

\* Array.prototype.findIndex, 0 when nothing is found (-1 in the source)
FindIndex(s, test(_)) ==
  IF \E i \in DOMAIN s : test(s[i])
  THEN CHOOSE i \in DOMAIN s : test(s[i]) /\ \A j \in 1..(i - 1) : ~test(s[j])
  ELSE 0

\* Array.prototype.splice(i, 1)
Splice1(s, i) == SubSeq(s, 1, i - 1) \o SubSeq(s, i + 1, Len(s))

Ids(s) == {s[i].MessageId : i \in DOMAIN s}

\* number of returnMessage calls that removed a lease, over all messages
RECURSIVE SumOver(_, _)
SumOver(f, S) ==
  IF S = {} THEN 0
  ELSE LET x == CHOOSE y \in S : TRUE IN f[x] + SumOver(f, S \ {x})

TotalReturned == SumOver(returned, DOMAIN returned)

NoResult == [op |-> "none", value |-> <<>>, threw |-> FALSE]

(* ------------------ OrderSQSService: private helpers ------------------- *)
\* generateMessageId: msg_<Date.now()>_<random>; ids never repeat
generateMessageId == idCounter + 1

\* generateReceiptHandle: receipt_<Date.now()>_<random>; handles never repeat
generateReceiptHandle == rcptCounter + 1

\* getRetryCount(messageId)
getRetryCount(messageId) == 0

\* isDuplicate with the window compared in seconds instead of milliseconds
isDuplicate_windowInSeconds(deduplicationId, timestamp) ==
  IF deduplicationId \notin DOMAIN deduplicationCache
     \/ deduplicationCache[deduplicationId] = 0
  THEN FALSE
  ELSE (timestamp - deduplicationCache[deduplicationId]) < 5 * 60

\* isDuplicate with the end of the window included: <= instead of <
isDuplicate_inclusive(deduplicationId, timestamp) ==
  IF deduplicationId \notin DOMAIN deduplicationCache
     \/ deduplicationCache[deduplicationId] = 0
  THEN FALSE
  ELSE (timestamp - deduplicationCache[deduplicationId]) <= deduplicationWindowMs

\* isDuplicate(deduplicationId, timestamp)
isDuplicate(deduplicationId, timestamp) ==
  IF deduplicationId \notin DOMAIN deduplicationCache
     \/ deduplicationCache[deduplicationId] = 0
  THEN FALSE
  ELSE (timestamp - deduplicationCache[deduplicationId]) < deduplicationWindowMs

Init ==
  /\ queue = <<>>
  /\ processingQueue = <<>>
  /\ processedMessages = {}
  /\ deduplicationCache = <<>>
  /\ timers = <<>>
  /\ now = StartTime
  /\ cleanupDue = StartTime + cleanupIntervalMs
  /\ idCounter = 0
  /\ rcptCounter = 0
  /\ ret = NoResult
  /\ returned = <<>>
  /\ leaseOrder = <<>>
  /\ delivered = {}
  /\ acknowledged = {}
  /\ accepted = {}
  /\ lastSeen = <<>>
  /\ stored = <<>>
  /\ isRunning = FALSE
  /\ processingInterval = <<>>
  /\ ticks = <<>>

(* ----------------------- OrderHandlerService --------------------------- *)
\* start() without the isRunning check: a second call sets a second timer
start_noGuard ==
  /\ isRunning' = TRUE
  /\ processingInterval' = Append(processingInterval, now + processingIntervalMs)
  /\ UNCHANGED ticks

\* start()
start ==
  IF isRunning
  THEN UNCHANGED hvars
  ELSE /\ isRunning' = TRUE
       /\ processingInterval' = Append(processingInterval, now + processingIntervalMs)
       /\ UNCHANGED ticks

\* stop() that also abandons the ticks in progress
stop_cancelsTicks ==
  IF ~isRunning
  THEN UNCHANGED hvars
  ELSE /\ isRunning' = FALSE
       /\ processingInterval' =
            IF processingInterval # <<>>
            THEN SubSeq(processingInterval, 1, Len(processingInterval) - 1)
            ELSE processingInterval
       /\ ticks' = <<>>

\* stop()
stop ==
  IF ~isRunning
  THEN UNCHANGED hvars
  ELSE /\ isRunning' = FALSE
       /\ processingInterval' =
            IF processingInterval # <<>>
            THEN SubSeq(processingInterval, 1, Len(processingInterval) - 1)
            ELSE processingInterval
       /\ UNCHANGED ticks

\* a handler that registers no listener: an enqueue does not wake it
onMessageReceived_ignored ==
  UNCHANGED hvars

\* the listener the constructor registers: on 'messageReceived', start()
\* unless running
onMessageReceived ==
  IF ~isRunning THEN start ELSE UNCHANGED hvars

(* ------------------------ OrderSQSService ------------------------------ *)
\* sendMessage rejecting a duplicate instead of answering like an enqueue
sendMessage_throwsOnDuplicate(event) ==
  LET messageId == generateMessageId
      timestamp == now
      message == [MessageId |-> messageId,
                  ReceiptHandle |-> generateReceiptHandle,
                  Body |-> [id |-> messageId, type |-> event.type,
                            orderId |-> event.orderId, data |-> event.data,
                            groupId |-> event.groupId,
                            deduplicationId |-> event.deduplicationId,
                            timestamp |-> timestamp],
                  Attributes |-> [SentTimestamp |-> timestamp,
                                  GroupId |-> event.groupId,
                                  DeduplicationId |-> event.deduplicationId]]
  IN
  /\ idCounter' = idCounter + 1
  /\ lastSeen' = (event.deduplicationId :> timestamp) @@ lastSeen
  /\ IF isDuplicate(event.deduplicationId, timestamp)
     THEN UNCHANGED <<queue, deduplicationCache, rcptCounter, returned, accepted,
                      hvars>>
     ELSE /\ queue' = Append(queue, message)
          /\ onMessageReceived
          /\ accepted' = accepted \cup {message}
          /\ deduplicationCache' =
               (event.deduplicationId :> timestamp) @@ deduplicationCache
          /\ rcptCounter' = rcptCounter + 1
          /\ returned' = (messageId :> 0) @@ returned
  /\ ret' = IF isDuplicate(event.deduplicationId, timestamp)
             THEN [op |-> "sendMessage", value |-> "Duplicate message", threw |-> TRUE]
             ELSE [op |-> "sendMessage", value |-> [MessageId |-> messageId],
                   threw |-> FALSE]
  /\ UNCHANGED <<processingQueue, processedMessages, timers, cleanupDue, now,
                 leaseOrder, delivered, acknowledged, stored>>

\* sendMessage recording the token's timestamp before the duplicate check returns
sendMessage_refreshesOnDuplicate(event) ==
  LET messageId == generateMessageId
      timestamp == now
      message == [MessageId |-> messageId,
                  ReceiptHandle |-> generateReceiptHandle,
                  Body |-> [id |-> messageId, type |-> event.type,
                            orderId |-> event.orderId, data |-> event.data,
                            groupId |-> event.groupId,
                            deduplicationId |-> event.deduplicationId,
                            timestamp |-> timestamp],
                  Attributes |-> [SentTimestamp |-> timestamp,
                                  GroupId |-> event.groupId,
                                  DeduplicationId |-> event.deduplicationId]]
  IN
  /\ idCounter' = idCounter + 1
  /\ lastSeen' = (event.deduplicationId :> timestamp) @@ lastSeen
  /\ IF isDuplicate(event.deduplicationId, timestamp)
     THEN /\ deduplicationCache' =
               (event.deduplicationId :> timestamp) @@ deduplicationCache
          /\ UNCHANGED <<queue, rcptCounter, returned, accepted, hvars>>
     ELSE /\ queue' = Append(queue, message)
          /\ onMessageReceived
          /\ accepted' = accepted \cup {message}
          /\ deduplicationCache' =
               (event.deduplicationId :> timestamp) @@ deduplicationCache
          /\ rcptCounter' = rcptCounter + 1
          /\ returned' = (messageId :> 0) @@ returned
  /\ ret' = [op |-> "sendMessage", value |-> [MessageId |-> messageId],
             threw |-> FALSE]
  /\ UNCHANGED <<processingQueue, processedMessages, timers, cleanupDue, now,
                 leaseOrder, delivered, acknowledged, stored>>

\* sendMessage(event)
sendMessage(event) ==
  LET messageId == generateMessageId
      timestamp == now
      message == [MessageId |-> messageId,
                  ReceiptHandle |-> generateReceiptHandle,
                  Body |-> [id |-> messageId, type |-> event.type,
                            orderId |-> event.orderId, data |-> event.data,
                            groupId |-> event.groupId,
                            deduplicationId |-> event.deduplicationId,
                            timestamp |-> timestamp],
                  Attributes |-> [SentTimestamp |-> timestamp,
                                  GroupId |-> event.groupId,
                                  DeduplicationId |-> event.deduplicationId]]
  IN
  /\ idCounter' = idCounter + 1
  /\ lastSeen' = (event.deduplicationId :> timestamp) @@ lastSeen
  /\ IF isDuplicate(event.deduplicationId, timestamp)
     THEN UNCHANGED <<queue, deduplicationCache, rcptCounter, returned, accepted,
                      hvars>>
     ELSE /\ queue' = Append(queue, message)
          /\ onMessageReceived
          /\ accepted' = accepted \cup {message}
          /\ deduplicationCache' =
               (event.deduplicationId :> timestamp) @@ deduplicationCache
          /\ rcptCounter' = rcptCounter + 1
          /\ returned' = (messageId :> 0) @@ returned
  /\ ret' = [op |-> "sendMessage", value |-> [MessageId |-> messageId],
             threw |-> FALSE]
  /\ UNCHANGED <<processingQueue, processedMessages, timers, cleanupDue, now,
                 leaseOrder, delivered, acknowledged, stored>>

\* messagesToReceive taking the newest available messages: slice(-n)
messagesToReceive_newestFirst(maxNumberOfMessages) ==
  LET available(msg) ==
        /\ ~\E i \in DOMAIN processingQueue :
               processingQueue[i].MessageId = msg.MessageId
        /\ msg.MessageId \notin processedMessages
      all == Filter(queue, available)
  IN SubSeq(all, IF Len(all) > maxNumberOfMessages
                 THEN Len(all) - maxNumberOfMessages + 1 ELSE 1, Len(all))

\* the messages receiveMessage(maxNumberOfMessages) selects
messagesToReceive(maxNumberOfMessages) ==
  LET available(msg) ==
        /\ ~\E i \in DOMAIN processingQueue :
               processingQueue[i].MessageId = msg.MessageId
        /\ msg.MessageId \notin processedMessages
  IN Slice0(Filter(queue, available), maxNumberOfMessages)

\* leaseOrder extended by the ids of a batch that were never leased before
RECURSIVE FirstLeases(_, _)
FirstLeases(order, batch) ==
  IF batch = <<>> THEN order
  ELSE FirstLeases(IF Head(batch).MessageId \in Range(order) THEN order
                   ELSE Append(order, Head(batch).MessageId),
                   Tail(batch))

\* receiveMessage without the slice(0, maxNumberOfMessages): every available
\* message is leased
receiveMessage_noLimit(maxNumberOfMessages) ==
  LET batch == messagesToReceive(Len(queue)) IN
  /\ processingQueue' = processingQueue \o batch
  /\ ret' = [op |-> "receiveMessage", value |-> batch, threw |-> FALSE]
  /\ leaseOrder' = FirstLeases(leaseOrder, batch)
  /\ delivered' = delivered \cup
                    {<<batch[i].MessageId, batch[i].ReceiptHandle>> : i \in DOMAIN batch}
  /\ UNCHANGED <<queue, processedMessages, deduplicationCache, timers, cleanupDue,
                 now, idCounter, rcptCounter, returned, acknowledged, accepted, lastSeen, stored>>

\* receiveMessage(maxNumberOfMessages)
receiveMessage(maxNumberOfMessages) ==
  LET batch == messagesToReceive(maxNumberOfMessages) IN
  /\ processingQueue' = processingQueue \o batch
  /\ ret' = [op |-> "receiveMessage", value |-> batch, threw |-> FALSE]
  /\ leaseOrder' = FirstLeases(leaseOrder, batch)
  /\ delivered' = delivered \cup
                    {<<batch[i].MessageId, batch[i].ReceiptHandle>> : i \in DOMAIN batch}
  /\ UNCHANGED <<queue, processedMessages, deduplicationCache, timers, cleanupDue,
                 now, idCounter, rcptCounter, returned, acknowledged, accepted, lastSeen, stored>>

NotFound == [op |-> "error", value |-> "Message not found in processing queue",
             threw |-> TRUE]

\* deleteMessage without the messageIndex === -1 check: splice(-1, 1) removes
\* the last lease, then reading the missing message throws
deleteMessage_noCheck(receiptHandle) ==
  LET messageIndex == FindIndex(processingQueue,
                                LAMBDA msg : msg.ReceiptHandle = receiptHandle)
  IN
  /\ IF messageIndex = 0
     THEN /\ ret' = [op |-> "deleteMessage", value |-> "TypeError", threw |-> TRUE]
          /\ processingQueue' = SubSeq(processingQueue, 1, Len(processingQueue) - 1)
          /\ UNCHANGED <<processedMessages, acknowledged>>
     ELSE /\ processingQueue' = Splice1(processingQueue, messageIndex)
          /\ processedMessages' =
               processedMessages \cup {processingQueue[messageIndex].MessageId}
          /\ acknowledged' =
               acknowledged \cup {processingQueue[messageIndex].MessageId}
          /\ ret' = [op |-> "deleteMessage", value |-> <<>>, threw |-> FALSE]
  /\ UNCHANGED <<queue, deduplicationCache, timers, cleanupDue, now, idCounter,
                 rcptCounter, returned, leaseOrder, delivered, accepted, lastSeen, stored>>

\* deleteMessage(receiptHandle)
deleteMessage(receiptHandle) ==
  LET messageIndex == FindIndex(processingQueue,
                                LAMBDA msg : msg.ReceiptHandle = receiptHandle)
  IN
  /\ IF messageIndex = 0
     THEN /\ ret' = [NotFound EXCEPT !.op = "deleteMessage"]
          /\ UNCHANGED <<processingQueue, processedMessages, acknowledged>>
     ELSE /\ processingQueue' = Splice1(processingQueue, messageIndex)
          /\ processedMessages' =
               processedMessages \cup {processingQueue[messageIndex].MessageId}
          /\ acknowledged' =
               acknowledged \cup {processingQueue[messageIndex].MessageId}
          /\ ret' = [op |-> "deleteMessage", value |-> <<>>, threw |-> FALSE]
  /\ UNCHANGED <<queue, deduplicationCache, timers, cleanupDue, now, idCounter,
                 rcptCounter, returned, leaseOrder, delivered, accepted, lastSeen, stored>>

\* returnMessage(receiptHandle, error)
returnMessage(receiptHandle) ==
  LET messageIndex == FindIndex(processingQueue,
                                LAMBDA msg : msg.ReceiptHandle = receiptHandle)
      message == processingQueue[messageIndex]
      retryCount == getRetryCount(message.MessageId)
      delay == IF retryCount + 1 \in DOMAIN retryDelays
               THEN retryDelays[retryCount + 1]
               ELSE retryDelays[Len(retryDelays)]
  IN
  /\ IF messageIndex = 0
     THEN /\ ret' = [NotFound EXCEPT !.op = "returnMessage"]
          /\ UNCHANGED <<processingQueue, processedMessages, timers, returned>>
     ELSE /\ processingQueue' = Splice1(processingQueue, messageIndex)
          /\ returned' = [returned EXCEPT ![message.MessageId] = @ + 1]
          /\ IF retryCount < maxRetries
             THEN /\ timers' = Append(timers,
                       [due |-> now + delay, delay |-> delay, message |-> message,
                        failures |-> returned[message.MessageId] + 1])
                  /\ UNCHANGED processedMessages
             ELSE /\ processedMessages' = processedMessages \cup {message.MessageId}
                  /\ UNCHANGED timers
          /\ ret' = [op |-> "returnMessage", value |-> <<>>, threw |-> FALSE]
  /\ UNCHANGED <<queue, deduplicationCache, cleanupDue, now, idCounter,
                 rcptCounter, leaseOrder, delivered, acknowledged, accepted, lastSeen, stored>>

\* getQueueAttributes()
QueueAttributes ==
  [ApproximateNumberOfMessages |-> Len(queue),
   ApproximateNumberOfMessagesNotVisible |-> Len(processingQueue),
   ApproximateNumberOfMessagesDelayed |-> 0]

getQueueAttributes ==
  /\ ret' = [op |-> "getQueueAttributes", value |-> QueueAttributes, threw |-> FALSE]
  /\ UNCHANGED <<queue, processingQueue, processedMessages, deduplicationCache,
                 timers, cleanupDue, now, idCounter, rcptCounter, returned,
                 leaseOrder, delivered, acknowledged, accepted, lastSeen, stored>>

\* purgeQueue that forgets deduplicationCache.clear()
purgeQueue_keepsDedup ==
  /\ queue' = <<>>
  /\ processingQueue' = <<>>
  /\ processedMessages' = {}
  /\ accepted' = {}
  /\ lastSeen' = <<>>
  /\ ret' = [op |-> "purgeQueue", value |-> <<>>, threw |-> FALSE]
  /\ UNCHANGED <<deduplicationCache, timers, cleanupDue, now, idCounter, rcptCounter,
                 returned, leaseOrder, delivered, acknowledged, stored>>

\* purgeQueue()
purgeQueue ==
  /\ queue' = <<>>
  /\ processingQueue' = <<>>
  /\ processedMessages' = {}
  /\ deduplicationCache' = <<>>
  /\ accepted' = {}
  /\ lastSeen' = <<>>
  /\ ret' = [op |-> "purgeQueue", value |-> <<>>, threw |-> FALSE]
  /\ UNCHANGED <<timers, cleanupDue, now, idCounter, rcptCounter, returned,
                 leaseOrder, delivered, acknowledged, stored>>

\* the setTimeout callback of returnMessage: this.queue.push(message)
retryTimer(i) ==
  /\ i \in DOMAIN timers
  /\ timers[i].due <= now
  /\ queue' = Append(queue, timers[i].message)
  /\ timers' = Splice1(timers, i)
  /\ UNCHANGED <<processingQueue, processedMessages, deduplicationCache, cleanupDue,
                 now, idCounter, rcptCounter, ret, returned, leaseOrder, delivered, acknowledged, accepted, lastSeen, stored>>

\* the sweep deleting every record older than its own period instead of the window
cleanupInterval_olderThanPeriod ==
  /\ cleanupDue <= now
  /\ deduplicationCache' =
       [key \in {k \in DOMAIN deduplicationCache :
                   ~(now - deduplicationCache[k] > cleanupIntervalMs)}
          |-> deduplicationCache[key]]
  /\ cleanupDue' = now + cleanupIntervalMs
  /\ UNCHANGED <<queue, processingQueue, processedMessages, timers, now, idCounter,
                 rcptCounter, ret, returned, leaseOrder, delivered, acknowledged, accepted, lastSeen, stored>>

\* the setInterval callback of startCleanupInterval
cleanupInterval ==
  /\ cleanupDue <= now
  /\ deduplicationCache' =
       [key \in {k \in DOMAIN deduplicationCache :
                   ~(now - deduplicationCache[k] > deduplicationWindowMs)}
          |-> deduplicationCache[key]]
  /\ cleanupDue' = now + cleanupIntervalMs
  /\ UNCHANGED <<queue, processingQueue, processedMessages, timers, now, idCounter,
                 rcptCounter, ret, returned, leaseOrder, delivered, acknowledged, accepted, lastSeen, stored>>

\* the passage of time with a visibility timeout: a lease ends on its own
Advance_visibilityTimeout(t) ==
  /\ t > now
  /\ now' = t
  /\ processingQueue' = <<>>
  /\ UNCHANGED <<queue, processedMessages, deduplicationCache,
                 timers, cleanupDue, idCounter, rcptCounter, ret, returned,
                 leaseOrder, delivered, acknowledged, accepted, lastSeen, stored>>

\* the passage of time: Date.now() reaches the instant t
Advance(t) ==
  /\ t > now
  /\ now' = t
  /\ UNCHANGED <<queue, processingQueue, processedMessages, deduplicationCache,
                 timers, cleanupDue, idCounter, rcptCounter, ret, returned,
                 leaseOrder, delivered, acknowledged, accepted, lastSeen, stored>>

(* ---------------- OrderHandlerService: status reads -------------------- *)
\* what getStatus() returns
Status == [isRunning |-> isRunning, processingIntervalMs |-> processingIntervalMs]

\* getStatus()
getStatus ==
  /\ ret' = [op |-> "getStatus", value |-> Status, threw |-> FALSE]
  /\ UNCHANGED <<queue, processingQueue, processedMessages, deduplicationCache,
                 timers, cleanupDue, now, idCounter, rcptCounter, returned,
                 leaseOrder, delivered, acknowledged, accepted, lastSeen, stored>>
  /\ UNCHANGED hvars

\* getQueueStats() that starts the handler when it finds it stopped
getQueueStats_startsHandler ==
  /\ ret' = [op |-> "getQueueStats",
             value |-> [status |-> Status, queue |-> QueueAttributes],
             threw |-> FALSE]
  /\ UNCHANGED <<queue, processingQueue, processedMessages, deduplicationCache,
                 timers, cleanupDue, now, idCounter, rcptCounter, returned,
                 leaseOrder, delivered, acknowledged, accepted, lastSeen, stored>>
  /\ start

\* getQueueStats(): getQueueAttributes() of the queue, then getStatus()
getQueueStats ==
  /\ ret' = [op |-> "getQueueStats",
             value |-> [status |-> Status, queue |-> QueueAttributes],
             threw |-> FALSE]
  /\ UNCHANGED <<queue, processingQueue, processedMessages, deduplicationCache,
                 timers, cleanupDue, now, idCounter, rcptCounter, returned,
                 leaseOrder, delivered, acknowledged, accepted, lastSeen, stored>>
  /\ UNCHANGED hvars

(* ------------------ OrderHandlerService: the tick ---------------------- *)
\* A tick is one processMessages call: the batch it leased, the index of the
\* message being processed, and where processMessage stands:
\*   "begin"  processMessage entered, the event not yet validated
\*   "store"  the Order Store call is outstanding
\*   "cache"  the store call succeeded, invalidateOrderCache is outstanding
\*   "ack"    about to call deleteMessage
\*   "catch"  an error was caught, about to call returnMessage
\* and what the awaited calls for that message returned so far: store and
\* cache are "none" (not called or outstanding), "ok" or "failed";
\* invalidated lists the invalidateOrderCache calls made for the message in
\* this attempt, "order" for invalidateOrderCache(orderId) and "all" for
\* invalidateOrderCache().
Urgent(pc) == pc \in {"begin", "ack", "catch"}

\* no handler code is in the middle of a run: timers and requests are served
Idle == \A k \in DOMAIN ticks : ~Urgent(ticks[k].pc)

\* the for loop of processMessages moves to the next message, or returns
Continue(k) ==
  IF ticks[k].index < Len(ticks[k].batch)
  THEN [ticks EXCEPT ![k].index = @ + 1, ![k].pc = "begin",
                     ![k].store = "none", ![k].cache = "none",
                     ![k].invalidated = <<>>]
  ELSE Splice1(ticks, k)

\* a tick that is skipped while an earlier processMessages call has not returned
tick_skippedWhileBusy ==
  /\ ticks = <<>>
  /\ processingInterval # <<>>
  /\ processingInterval[1] <= now
  /\ receiveMessage(handlerBatchSize)
  /\ processingInterval' = [processingInterval EXCEPT ![1] = now + processingIntervalMs]
  /\ ticks' = IF ret'.value = <<>> THEN ticks
              ELSE Append(ticks, [batch |-> ret'.value, index |-> 1, pc |-> "begin",
                                  store |-> "none", cache |-> "none",
                                  invalidated |-> <<>>])
  /\ UNCHANGED isRunning

\* the setInterval callback of start(): processMessages() up to its first await
tick ==
  /\ processingInterval # <<>>
  /\ processingInterval[1] <= now
  /\ receiveMessage(handlerBatchSize)
  /\ processingInterval' = [processingInterval EXCEPT ![1] = now + processingIntervalMs]
  /\ ticks' = IF ret'.value = <<>> THEN ticks
              ELSE Append(ticks, [batch |-> ret'.value, index |-> 1, pc |-> "begin",
                                  store |-> "none", cache |-> "none",
                                  invalidated |-> <<>>])
  /\ UNCHANGED isRunning

\* handleCreateOrder / handleUpdateOrder / handleDeleteOrder up to the store call
Valid(event) ==
  CASE event.type = "CREATE" -> event.data # "none"
    [] event.type = "UPDATE" -> event.orderId # "" /\ event.data # "none"
    [] event.type = "DELETE" -> event.orderId # ""
    [] OTHER -> TRUE

\* processMessage with a default branch that throws: an unknown type is an error
processMessage_unknownThrows(k) ==
  LET event == ticks[k].batch[ticks[k].index].Body IN
  /\ ticks[k].pc = "begin"
  /\ ticks' = [ticks EXCEPT ![k].pc =
                 IF event.type \notin {"CREATE", "UPDATE", "DELETE"} THEN "catch"
                 ELSE IF Valid(event) THEN "store" ELSE "catch"]
  /\ UNCHANGED <<qvars, isRunning, processingInterval>>

\* processMessage(message): the switch on event.type
processMessage(k) ==
  LET event == ticks[k].batch[ticks[k].index].Body IN
  /\ ticks[k].pc = "begin"
  /\ ticks' = [ticks EXCEPT ![k].pc =
                 IF event.type \notin {"CREATE", "UPDATE", "DELETE"} THEN "ack"
                 ELSE IF Valid(event) THEN "store" ELSE "catch"]
  /\ UNCHANGED <<qvars, isRunning, processingInterval>>

\* the variables an Order Store call leaves alone
storeFrame == <<queue, processingQueue, processedMessages, deduplicationCache,
                timers, cleanupDue, now, idCounter, rcptCounter, ret, returned,
                leaseOrder, delivered, acknowledged, accepted, lastSeen,
                isRunning, processingInterval>>

\* processMessage going on to the cache invalidation whatever the store returned
storeReturns_ignoresFailure(k, ok) ==
  LET id == ticks[k].batch[ticks[k].index].MessageId IN
  /\ ticks[k].pc = "store"
  /\ ticks' = [ticks EXCEPT ![k].pc = "cache",
                            ![k].store = IF ok THEN "ok" ELSE "failed",
                            ![k].invalidated = IF ok THEN Append(@, "order") ELSE @]
  /\ stored' = IF ok
               THEN (id :> (IF id \in DOMAIN stored THEN stored[id] + 1 ELSE 1)) @@ stored
               ELSE stored
  /\ UNCHANGED storeFrame

\* the Order Store call of a tick returns: ok, or not (null, false, or a throw
\* before anything was written). createOrder, updateOrderStatus and
\* deleteOrder call invalidateOrderCache(id) themselves before they return ok.
storeReturns(k, ok) ==
  LET id == ticks[k].batch[ticks[k].index].MessageId IN
  /\ ticks[k].pc = "store"
  /\ ticks' = [ticks EXCEPT ![k].pc = IF ok THEN "cache" ELSE "catch",
                            ![k].store = IF ok THEN "ok" ELSE "failed",
                            ![k].invalidated = IF ok THEN Append(@, "order") ELSE @]
  /\ stored' = IF ok
               THEN (id :> (IF id \in DOMAIN stored THEN stored[id] + 1 ELSE 1)) @@ stored
               ELSE stored
  /\ UNCHANGED storeFrame

\* updateOrderStatus: the UPDATE changed a row and invalidateOrderCache(id) was
\* called, then getOrderById threw or found no row, and the handler sees a failure
storeFailsAfterWrite(k) ==
  /\ ticks[k].pc = "store"
  /\ ticks[k].batch[ticks[k].index].Body.type = "UPDATE"
  /\ ticks' = [ticks EXCEPT ![k].pc = "catch",
                            ![k].store = "failed",
                            ![k].invalidated = Append(@, "order")]
  /\ UNCHANGED <<stored, storeFrame>>

\* the scope of the handler's own invalidateOrderCache call
handlerScope(event) == IF event.type = "UPDATE" THEN "order" ELSE "all"

\* invalidateOrderCache letting a Redis error through to processMessage
cacheReturns_throws(k, ok) ==
  /\ ticks[k].pc = "cache"
  /\ ticks' = [ticks EXCEPT ![k].pc = IF ok THEN "ack" ELSE "catch",
                            ![k].cache = IF ok THEN "ok" ELSE "failed",
                            ![k].invalidated =
                              Append(@, handlerScope(ticks[k].batch[ticks[k].index].Body))]
  /\ UNCHANGED <<qvars, isRunning, processingInterval>>

\* cacheService.invalidateOrderCache returns: Redis answered (ok) or failed,
\* and a failure is caught and logged inside invalidateOrderCache
cacheReturns(k, ok) ==
  /\ ticks[k].pc = "cache"
  /\ ticks' = [ticks EXCEPT ![k].pc = "ack",
                            ![k].cache = IF ok THEN "ok" ELSE "failed",
                            ![k].invalidated =
                              Append(@, handlerScope(ticks[k].batch[ticks[k].index].Body))]
  /\ UNCHANGED <<qvars, isRunning, processingInterval>>

\* processMessage: await orderSQSService.deleteMessage(ReceiptHandle)
acknowledge(k) ==
  /\ ticks[k].pc = "ack"
  /\ deleteMessage(ticks[k].batch[ticks[k].index].ReceiptHandle)
  /\ ticks' = IF ret'.threw THEN [ticks EXCEPT ![k].pc = "catch"] ELSE Continue(k)
  /\ UNCHANGED <<isRunning, processingInterval>>

\* processMessages without its try/catch: the error of a failing returnMessage
\* is an unhandled rejection, which ends the process
catch_escapes(k) ==
  /\ ticks[k].pc = "catch"
  /\ returnMessage(ticks[k].batch[ticks[k].index].ReceiptHandle)
  /\ IF ret'.threw
     THEN /\ ticks' = <<>>
          /\ isRunning' = FALSE
          /\ processingInterval' = <<>>
     ELSE /\ ticks' = Continue(k)
          /\ UNCHANGED <<isRunning, processingInterval>>

\* processMessage: the catch block, await orderSQSService.returnMessage(...);
\* an error it throws is caught by processMessages, which then returns
catch(k) ==
  /\ ticks[k].pc = "catch"
  /\ returnMessage(ticks[k].batch[ticks[k].index].ReceiptHandle)
  /\ ticks' = IF ret'.threw THEN Splice1(ticks, k) ELSE Continue(k)
  /\ UNCHANGED <<isRunning, processingInterval>>

(* -------------------------- specifications ----------------------------- *)
\* the receipt handles a caller may pass: every handle issued, and one never issued
Handles == 1..(rcptCounter + 1)

\* Spec: the queue under every call a client can make and every timer that can
\* fire; the calls of the handler's ticks are among the client's calls
Next ==
  \/ \E event \in Events : idCounter < MaxMessages /\ sendMessage(event)
  \/ \E n \in BatchSizes : receiveMessage(n) /\ UNCHANGED hvars
  \/ \E h \in Handles : deleteMessage(h) /\ UNCHANGED hvars
  \/ \E h \in Handles : TotalReturned < MaxReturns /\ returnMessage(h) /\ UNCHANGED hvars
  \/ getQueueAttributes /\ UNCHANGED hvars
  \/ purgeQueue /\ UNCHANGED hvars
  \/ \E i \in DOMAIN timers : retryTimer(i) /\ UNCHANGED hvars
  \/ cleanupInterval /\ UNCHANGED hvars
  \/ \E t \in Instants : Advance(t) /\ UNCHANGED hvars

Spec == Init /\ [][Next]_vars

\* SpecRetry: the same calls and timers, for one event that keeps being returned
NextRetry ==
  \/ \E event \in Events : idCounter < RetryMessages /\ sendMessage(event)
  \/ \E n \in BatchSizes : receiveMessage(n) /\ UNCHANGED hvars
  \/ \E h \in Handles : deleteMessage(h) /\ UNCHANGED hvars
  \/ \E h \in Handles : TotalReturned < RetryReturns /\ returnMessage(h) /\ UNCHANGED hvars
  \/ getQueueAttributes /\ UNCHANGED hvars
  \/ purgeQueue /\ UNCHANGED hvars
  \/ \E i \in DOMAIN timers : retryTimer(i) /\ UNCHANGED hvars
  \/ cleanupInterval /\ UNCHANGED hvars
  \/ \E t \in Instants : Advance(t) /\ UNCHANGED hvars

SpecRetry == Init /\ [][NextRetry]_vars

\* SpecHandler: the program. The HTTP routes call sendMessage, purgeQueue and
\* getQueueAttributes, the server starts the handler and a signal stops it;
\* receiveMessage, deleteMessage and returnMessage are called by ticks only.
NextHandler ==
  \/ Idle /\ \E event \in HandlerEvents : idCounter < HandlerMessages /\ sendMessage(event)
  \/ Idle /\ purgeQueue /\ UNCHANGED hvars
  \/ Idle /\ getQueueAttributes /\ UNCHANGED hvars
  \/ Idle /\ start /\ UNCHANGED qvars
  \/ Idle /\ stop /\ UNCHANGED qvars
  \/ Idle /\ tick
  \/ Idle /\ \E k \in DOMAIN ticks : \E ok \in BOOLEAN : storeReturns(k, ok)
  \/ Idle /\ \E k \in DOMAIN ticks : \E ok \in BOOLEAN : cacheReturns(k, ok)
  \/ \E k \in DOMAIN ticks : processMessage(k)
  \/ \E k \in DOMAIN ticks : acknowledge(k)
  \/ \E k \in DOMAIN ticks : TotalReturned < HandlerReturns /\ catch(k)
  \/ Idle /\ \E i \in DOMAIN timers : retryTimer(i) /\ UNCHANGED hvars
  \/ Idle /\ cleanupInterval /\ UNCHANGED hvars
  \/ Idle /\ \E t \in Instants : Advance(t) /\ UNCHANGED hvars

SpecHandler == Init /\ [][NextHandler]_vars

\* SpecApply: the program as in SpecHandler, for one event of every shape
NextApply ==
  \/ Idle /\ \E event \in ApplyEvents : idCounter < ApplyMessages /\ sendMessage(event)
  \/ Idle /\ purgeQueue /\ UNCHANGED hvars
  \/ Idle /\ getQueueAttributes /\ UNCHANGED hvars
  \/ Idle /\ start /\ UNCHANGED qvars
  \/ Idle /\ stop /\ UNCHANGED qvars
  \/ Idle /\ tick
  \/ Idle /\ \E k \in DOMAIN ticks : \E ok \in BOOLEAN : storeReturns(k, ok)
  \/ Idle /\ \E k \in DOMAIN ticks : storeFailsAfterWrite(k)
  \/ Idle /\ \E k \in DOMAIN ticks : \E ok \in BOOLEAN : cacheReturns(k, ok)
  \/ \E k \in DOMAIN ticks : processMessage(k)
  \/ \E k \in DOMAIN ticks : acknowledge(k)
  \/ \E k \in DOMAIN ticks : TotalReturned < ApplyReturns /\ catch(k)
  \/ Idle /\ \E i \in DOMAIN timers : retryTimer(i) /\ UNCHANGED hvars
  \/ Idle /\ cleanupInterval /\ UNCHANGED hvars
  \/ Idle /\ \E t \in Instants : Advance(t) /\ UNCHANGED hvars

SpecApply == Init /\ [][NextApply]_vars

\* SpecDedup: the producers' side of the queue: sendMessage calls, purges, the
\* sweep of the deduplication cache and the passage of time
NextDedup ==
  \/ \E event \in Events : idCounter < DedupMessages /\ sendMessage(event)
  \/ getQueueAttributes /\ UNCHANGED hvars
  \/ purgeQueue /\ UNCHANGED hvars
  \/ cleanupInterval /\ UNCHANGED hvars
  \/ \E t \in Instants : Advance(t) /\ UNCHANGED hvars

SpecDedup == Init /\ [][NextDedup]_vars

\* no callback is overdue: every retry timer and interval timer due by now has run
NothingDue ==
  /\ \A i \in DOMAIN timers : timers[i].due > now
  /\ \A i \in DOMAIN processingInterval : processingInterval[i] > now

\* the steps of a processMessages call after its first await, with an Order
\* Store that succeeds
TickSteps ==
  \/ Idle /\ \E k \in DOMAIN ticks : storeReturns(k, TRUE)
  \/ Idle /\ \E k \in DOMAIN ticks : \E ok \in BOOLEAN : cacheReturns(k, ok)
  \/ \E k \in DOMAIN ticks : processMessage(k)
  \/ \E k \in DOMAIN ticks : acknowledge(k)
  \/ \E k \in DOMAIN ticks : catch(k)

\* the setTimeout callbacks of returnMessage that are due. getRetryCount is
\* always 0, so every timer has the delay retryDelays[1] and the timers are due
\* in the order they were set: the event loop runs the oldest first.
RetrySteps == Idle /\ retryTimer(1) /\ UNCHANGED hvars

\* the clock reaches the next handler period once every due callback has run
ClockStep ==
  Idle /\ NothingDue /\ \E t \in LiveInstants : t = now + processingIntervalMs
                                                /\ Advance(t) /\ UNCHANGED hvars

\* SpecLive: the program left running: the routes send events, nobody purges
\* the queue or stops the handler, the event loop runs every callback that is
\* due, the Order Store carries out every operation it is asked for, every
\* cache call returns, and no returnMessage call is held back
NextLive ==
  \/ Idle /\ \E event \in HandlerEvents :
               idCounter < LiveMessages /\ now <= LastSend /\ sendMessage(event)
  \/ Idle /\ start /\ UNCHANGED qvars
  \/ Idle /\ tick
  \/ TickSteps
  \/ RetrySteps
  \/ ClockStep

\* what the event loop does on its own: callbacks that are due, awaited calls
\* that return, the clock
LoopSteps ==
  \/ Idle /\ tick
  \/ TickSteps
  \/ RetrySteps
  \/ ClockStep

\* The event loop never stops while it has something to run.  No behaviour
\* takes a loop step for ever (the clock is bounded and every other step uses
\* up a timer, an await or a batch entry), so this fairness condition makes
\* each callback and each awaited call run to the end, like a condition on
\* each of them.
SpecLive == Init /\ [][NextLive]_vars /\ WF_vars(LoopSteps)

\* SpecStatus: the program as in SpecHandler, with the monitoring routes
\* (/sqs/status, /handler/status, /handler/stats) and an event of unknown type
NextStatus ==
  \/ Idle /\ \E event \in StatusEvents : idCounter < StatusMessages /\ sendMessage(event)
  \/ Idle /\ purgeQueue /\ UNCHANGED hvars
  \/ Idle /\ getQueueAttributes /\ UNCHANGED hvars
  \/ Idle /\ getStatus
  \/ Idle /\ getQueueStats
  \/ Idle /\ start /\ UNCHANGED qvars
  \/ Idle /\ stop /\ UNCHANGED qvars
  \/ Idle /\ tick
  \/ Idle /\ \E k \in DOMAIN ticks : \E ok \in BOOLEAN : storeReturns(k, ok)
  \/ Idle /\ \E k \in DOMAIN ticks : \E ok \in BOOLEAN : cacheReturns(k, ok)
  \/ \E k \in DOMAIN ticks : processMessage(k)
  \/ \E k \in DOMAIN ticks : acknowledge(k)
  \/ \E k \in DOMAIN ticks : TotalReturned < StatusReturns /\ catch(k)
  \/ Idle /\ \E i \in DOMAIN timers : retryTimer(i) /\ UNCHANGED hvars
  \/ Idle /\ cleanupInterval /\ UNCHANGED hvars
  \/ Idle /\ \E t \in Instants : Advance(t) /\ UNCHANGED hvars

SpecStatus == Init /\ [][NextStatus]_vars

(* ------------------------------ claims --------------------------------- *)
NoRepeatedId(s) ==
  \A i, j \in DOMAIN s : s[i].MessageId = s[j].MessageId => i = j

PositionIn(order, id) == CHOOSE k \in DOMAIN order : order[k] = id

TimersOf(id) == {i \in DOMAIN timers : timers[i].message.MessageId = id}

\* C1: in every reachable state processingQueue holds at most one entry for
\* any MessageId, and the list a receiveMessage call returned holds no
\* MessageId twice.
C1_AtMostOneLease ==
  /\ NoRepeatedId(processingQueue)
  /\ ret.op = "receiveMessage" => NoRepeatedId(ret.value)

\* C2: two different messages that sendMessage added to the queue with the
\* same deduplicationId and no purgeQueue since were not accepted less than
\* deduplicationWindowMs apart: of the sendMessage calls with one token made
\* within one window, at most one adds a message.
C2_DedupWithinWindow ==
  \A a, b \in accepted :
    ( /\ a.MessageId # b.MessageId
      /\ a.Attributes.DeduplicationId = b.Attributes.DeduplicationId
      /\ a.Attributes.SentTimestamp <= b.Attributes.SentTimestamp )
    => b.Attributes.SentTimestamp - a.Attributes.SentTimestamp
         >= deduplicationWindowMs

\* C2 witness: the last call was a sendMessage, later than the message in the
\* queue and inside its window, and it added nothing.
C2_Witness ==
  /\ ret.op = "sendMessage"
  /\ ret.value.MessageId \notin Ids(queue)
  /\ ret.value.MessageId = idCounter
  /\ Cardinality(accepted) = 1
  /\ \A a \in accepted :
       /\ now > a.Attributes.SentTimestamp
       /\ now - a.Attributes.SentTimestamp < deduplicationWindowMs

\* C3: for two messages A and B of one group in the queue, A accepted before B
\* and neither ever returned for retry, if B has been leased then A was
\* leased too, by an earlier call or earlier in the list of the same call.
C3_FifoPerGroup ==
  \A i, j \in DOMAIN queue :
    ( /\ i < j
      /\ queue[i].Attributes.GroupId = queue[j].Attributes.GroupId
      /\ returned[queue[i].MessageId] = 0
      /\ returned[queue[j].MessageId] = 0
      /\ queue[j].MessageId \in Range(leaseOrder) )
    => /\ queue[i].MessageId \in Range(leaseOrder)
       /\ PositionIn(leaseOrder, queue[i].MessageId)
            < PositionIn(leaseOrder, queue[j].MessageId)

\* C3 witness: two never-returned messages of one group have both been leased,
\* while receiveMessage was called with maxNumberOfMessages = 1.
C3_Witness ==
  /\ ret.op = "receiveMessage"
  /\ Len(ret.value) = 1
  /\ \E i, j \in DOMAIN queue :
       /\ i < j
       /\ queue[i].Attributes.GroupId = queue[j].Attributes.GroupId
       /\ returned[queue[i].MessageId] = 0
       /\ returned[queue[j].MessageId] = 0
       /\ {queue[i].MessageId, queue[j].MessageId} \subseteq Range(leaseOrder)
       /\ ret.value[1].MessageId = queue[j].MessageId

\* C4: a receiveMessage call returns no message whose MessageId a successful
\* deleteMessage acknowledged before the call.
C4_NoLeaseAfterAck ==
  ret.op = "receiveMessage" =>
    \A i \in DOMAIN ret.value : ret.value[i].MessageId \notin acknowledged

\* C5: a receiveMessage call returns no message for which a retry timer set by
\* returnMessage is still pending.
C5_NoLeaseBeforeRetryTimer ==
  ret.op = "receiveMessage" =>
    \A i \in DOMAIN ret.value : TimersOf(ret.value[i].MessageId) = {}

\* C6: when receiveMessage leases a message that was returned for retry, the
\* ReceiptHandle it delivers was not delivered by an earlier lease of that
\* message.
C6_FreshHandleOnRetry ==
  [][ (ret'.op = "receiveMessage" /\ Len(processingQueue') > Len(processingQueue))
      => \A i \in DOMAIN ret'.value :
           returned[ret'.value[i].MessageId] > 0
           => <<ret'.value[i].MessageId, ret'.value[i].ReceiptHandle>> \notin delivered
    ]_vars

\* C7: a message that has been returned maxRetries times is neither pending
\* nor in flight, and no retry timer is pending for it.
C7_DroppedAfterMaxRetries ==
  \A id \in DOMAIN returned :
    returned[id] >= maxRetries =>
      /\ id \notin Ids(processingQueue)
      /\ id \in Ids(queue) => id \in processedMessages
      /\ TimersOf(id) = {}

\* C8: the delay of every retry timer is retryDelays[n] for the n-th failure
\* of its message (1s, 5s, 15s, and 15s beyond the schedule).
C8_BackoffSchedule ==
  \A i \in DOMAIN timers :
    timers[i].delay =
      retryDelays[IF timers[i].failures <= Len(retryDelays)
                  THEN timers[i].failures ELSE Len(retryDelays)]

\* C9: a purgeQueue step leaves getQueueAttributes reporting no pending and no
\* in-flight message and no token a duplicate, and a sendMessage that is the
\* next call after a purgeQueue adds its message to the queue.
C9_PurgeClearsEverything ==
  [][ /\ purgeQueue
        => /\ QueueAttributes'.ApproximateNumberOfMessages = 0
           /\ QueueAttributes'.ApproximateNumberOfMessagesNotVisible = 0
           /\ \A token \in Tokens : ~isDuplicate(token, now)'
      /\ (ret.op = "purgeQueue" /\ ret'.op = "sendMessage")
        => ret'.value.MessageId \in Ids(queue')
    ]_vars

\* C9 witness: a message accepted before a purge waits in a retry timer, and
\* the queue holds only a later message with the same deduplicationId,
\* accepted inside the first one's window.
C9_Witness ==
  /\ Len(queue) = 1
  /\ ret.op = "sendMessage"
  /\ \E i \in DOMAIN timers :
       /\ timers[i].message.MessageId # queue[1].MessageId
       /\ timers[i].message.Attributes.DeduplicationId
            = queue[1].Attributes.DeduplicationId
       /\ queue[1].Attributes.SentTimestamp
            - timers[i].message.Attributes.SentTimestamp < deduplicationWindowMs

LeasedHandles == {processingQueue[i].ReceiptHandle : i \in DOMAIN processingQueue}

\* C10: when a tick calls deleteMessage or returnMessage with a receipt handle
\* that is not in the in-flight set, the call throws, queue, processingQueue,
\* processedMessages and deduplicationCache stay as they were, no retry timer
\* is scheduled, and the handler is as running as before with its interval
\* timer as it was.
C10_UnknownLeaseIsNoOp ==
  [][ \A k \in DOMAIN ticks :
        ( /\ ticks[k].batch[ticks[k].index].ReceiptHandle \notin LeasedHandles
          /\ acknowledge(k) \/ catch(k) )
        => /\ ret'.threw
           /\ ret'.op = (IF ticks[k].pc = "ack" THEN "deleteMessage"
                                               ELSE "returnMessage")
           /\ UNCHANGED <<queue, processingQueue, processedMessages,
                          deduplicationCache, timers>>
           /\ isRunning' = isRunning
           /\ processingInterval' = processingInterval
    ]_vars

\* C10 witness: a tick's returnMessage has thrown for a handle that a purge
\* resolved, another message is in flight, and the handler is still running
\* with its interval timer set.
C10_Witness ==
  /\ ret.op = "returnMessage"
  /\ ret.threw
  /\ processingQueue # <<>>
  /\ isRunning
  /\ processingInterval # <<>>

\* C11: what a sendMessage call returned is a result {MessageId} and never an
\* error, whether the call added its message to the queue or was suppressed
\* as a duplicate; it is returned by the call itself, before any tick has
\* leased the message.
C11_SendAlwaysAccepted ==
  ret.op = "sendMessage" =>
    /\ ~ret.threw
    /\ DOMAIN ret.value = {"MessageId"}
    /\ ret.value.MessageId = idCounter

\* C11 witness: the second sendMessage call was suppressed as a duplicate and
\* returned its own MessageId like the first.
C11_Witness ==
  /\ ret.op = "sendMessage"
  /\ ~ret.threw
  /\ idCounter = 2
  /\ ret.value = [MessageId |-> 2]
  /\ Ids(queue) = {1}

\* C12: a sendMessage call that adds no message leaves queue, processingQueue,
\* processedMessages and deduplicationCache as they were and does not wake
\* the handler: isRunning, the interval timer and the ticks are unchanged.
C12_DuplicateChangesNothing ==
  [][ \A event \in HandlerEvents :
        (sendMessage(event) /\ ret'.value.MessageId \notin Ids(queue'))
        => /\ UNCHANGED <<queue, processingQueue, processedMessages,
                          deduplicationCache>>
           /\ UNCHANGED hvars
    ]_vars

\* C12 witness: a duplicate was suppressed one second or more after the
\* message it repeats, while the handler was stopped, and the handler is
\* still stopped.
C12_Witness ==
  /\ ret.op = "sendMessage"
  /\ ret.value.MessageId \notin Ids(queue)
  /\ queue # <<>>
  /\ \A i \in DOMAIN queue : queue[i].Attributes.SentTimestamp < now
  /\ ~isRunning
  /\ processingInterval = <<>>

\* C13: a sendMessage call at time now with token T adds nothing when T has a
\* record with now - record < deduplicationWindowMs; otherwise it adds its
\* message at the end of the queue and sets T's record to now.
C13_SuppressedExactlyInWindow ==
  [][ \A event \in Events :
        sendMessage(event) =>
          LET T == event.deduplicationId IN
          IF /\ T \in DOMAIN deduplicationCache
             /\ now - deduplicationCache[T] < 5 * 60 * 1000
          THEN /\ queue' = queue
               /\ deduplicationCache' = deduplicationCache
          ELSE /\ Len(queue') = Len(queue) + 1
               /\ SubSeq(queue', 1, Len(queue)) = queue
               /\ queue'[Len(queue')].MessageId = ret'.value.MessageId
               /\ queue'[Len(queue')].Attributes.DeduplicationId = T
               /\ T \in DOMAIN deduplicationCache'
               /\ deduplicationCache'[T] = now
    ]_vars

\* C13 witness: a token was accepted again exactly deduplicationWindowMs after
\* it was accepted first, its record still in the cache.
C13_Witness ==
  /\ ret.op = "sendMessage"
  /\ \E i, j \in DOMAIN queue :
       /\ queue[i].Attributes.DeduplicationId = queue[j].Attributes.DeduplicationId
       /\ queue[j].Attributes.SentTimestamp - queue[i].Attributes.SentTimestamp
            = deduplicationWindowMs
       /\ queue[j].MessageId = ret.value.MessageId
       /\ deduplicationCache[queue[j].Attributes.DeduplicationId] = now

\* C14: a sendMessage call with a token that any earlier call since the last
\* purgeQueue used less than deduplicationWindowMs before it, whether that
\* call was accepted or suppressed, adds nothing to the queue.
C14_SlidingExpiry ==
  [][ \A event \in Events :
        sendMessage(event) =>
          LET T == event.deduplicationId IN
          (T \in DOMAIN lastSeen /\ now - lastSeen[T] < deduplicationWindowMs)
            => queue' = queue
    ]_vars

\* the deduplication records as they would be had no sweep ever run: the time
\* each token was last accepted since the last purgeQueue
NeverSwept(token, timestamp) ==
  \E a \in accepted :
    /\ a.Attributes.DeduplicationId = token
    /\ timestamp - a.Attributes.SentTimestamp < deduplicationWindowMs

\* C15: for every token, at the present time and at every later instant,
\* isDuplicate answers from the swept cache what it would answer had the
\* sweep never removed a record.
C15_SweepChangesNoAnswer ==
  \A token \in Tokens :
    \A t \in {now} \cup {i \in Instants : i > now} :
      isDuplicate(token, t) = NeverSwept(token, t)

\* C15 witness: the sweep has removed the record of a token that was accepted,
\* and the token has not been sent again.
C15_Witness ==
  /\ cleanupDue > now
  /\ \E a \in accepted :
       /\ a.Attributes.DeduplicationId \notin DOMAIN deduplicationCache
       /\ lastSeen[a.Attributes.DeduplicationId] = a.Attributes.SentTimestamp

\* C16: in every state at most one tick timer is live and one is live exactly
\* when isRunning is true; a start() call while running and a stop() call
\* while stopped change nothing of the handler.
C16_TwoStateHandler ==
  /\ [](/\ Len(processingInterval) <= 1
        /\ processingInterval # <<>> <=> isRunning)
  /\ [][ /\ (isRunning /\ start) => UNCHANGED hvars
         /\ (~isRunning /\ stop) => UNCHANGED hvars
     ]_vars

\* C16 witness: the handler was started, leased a batch and was stopped while
\* the batch is being processed; no timer is left.
C16_Witness ==
  /\ ~isRunning
  /\ processingInterval = <<>>
  /\ ticks # <<>>
  /\ processingQueue # <<>>

\* C17: no step of a tick, whatever the validation, the Order Store, the cache
\* or a throwing deleteMessage / returnMessage did, changes isRunning or the
\* interval timer: the handler keeps ticking.
C17_ErrorsStayInsideTick ==
  [][ \A k \in DOMAIN ticks :
        ( \/ processMessage(k)
          \/ \E ok \in BOOLEAN : storeReturns(k, ok)
          \/ storeFailsAfterWrite(k)
          \/ \E ok \in BOOLEAN : cacheReturns(k, ok)
          \/ acknowledge(k)
          \/ catch(k) )
        => /\ isRunning' = isRunning
           /\ processingInterval' = processingInterval
    ]_vars

\* C17 witness: a tick caught the error of an event and returned it for retry,
\* and the still running handler has leased a message in a later tick and is
\* waiting for the Order Store.
C17_Witness ==
  /\ isRunning
  /\ processingInterval # <<>>
  /\ \E id \in DOMAIN returned : returned[id] > 0
  /\ \E k \in DOMAIN ticks :
       /\ ticks[k].pc = "store"
       /\ ticks[k].batch[ticks[k].index].MessageId \in Ids(processingQueue)

\* C18: a tick calls deleteMessage for an event only after its Order Store
\* call succeeded, calls returnMessage only for an event whose validation or
\* store call failed, and ends only after the last event of its batch.
C18_EveryLeaseResolvedOnce ==
  [][ \A k \in DOMAIN ticks :
        /\ acknowledge(k) => ticks[k].store = "ok"
        /\ catch(k) => ticks[k].store # "ok"
        /\ ((acknowledge(k) \/ catch(k)) /\ Len(ticks') < Len(ticks))
             => ticks[k].index = Len(ticks[k].batch)
    ]_vars

\* the events C19 lists: a Create with no payload, an Update with no orderId
\* or no status in its payload, a Delete with no orderId
FailsValidation(event) ==
  CASE event.type = "CREATE" -> event.data = "none"
    [] event.type = "UPDATE" -> event.orderId = "" \/ event.data \in {"none", "noStatus"}
    [] event.type = "DELETE" -> event.orderId = ""
    [] OTHER -> FALSE

\* C19: while a tick processes an event that fails validation, no Order Store
\* call is outstanding for it and none has returned.
C19_NoStoreCallForInvalid ==
  \A k \in DOMAIN ticks :
    FailsValidation(ticks[k].batch[ticks[k].index].Body)
      => /\ ticks[k].pc \notin {"store", "cache"}
         /\ ticks[k].store = "none"

\* C20: when the cache invalidation of an event whose Order Store call
\* succeeded fails, the tick goes on to deleteMessage, which acknowledges the
\* message if its lease is still in flight, and no step of the tick for that
\* event schedules a retry or puts the message back in the queue.
C20_CacheFailureStillAcknowledged ==
  [][ \A k \in DOMAIN ticks :
        LET message == ticks[k].batch[ticks[k].index] IN
        /\ cacheReturns(k, FALSE) => ticks'[k].pc = "ack"
        /\ (ticks[k].store = "ok" /\ ticks[k].cache = "failed" /\ acknowledge(k))
             => /\ ret'.op = "deleteMessage"
                /\ message.ReceiptHandle \in LeasedHandles
                     => message.MessageId \in processedMessages'
        /\ ( /\ ticks[k].store = "ok"
             /\ ticks[k].cache = "failed"
             /\ acknowledge(k) \/ catch(k) )
             => /\ timers' = timers
                /\ queue' = queue
    ]_vars

\* C20 witness: the Order Store call of an event succeeded, its cache
\* invalidation failed, and the tick is about to call deleteMessage for the
\* message, whose lease is in flight.
C20_Witness ==
  \E k \in DOMAIN ticks :
    /\ ticks[k].pc = "ack"
    /\ ticks[k].store = "ok"
    /\ ticks[k].cache = "failed"
    /\ ticks[k].batch[ticks[k].index].ReceiptHandle \in LeasedHandles

\* C21: when a tick's deleteMessage acknowledges a Create, Update or Delete
\* event, the message had been leased, its Order Store call had returned
\* successfully, and the handler's cache invalidation had been issued after
\* it; in every state a tick's cache invalidation was issued only after its
\* store call succeeded, and its store call only for a leased message.
C21_AckAfterStoreAndCache ==
  /\ [](\A k \in DOMAIN ticks :
          LET m == ticks[k].batch[ticks[k].index] IN
          /\ ticks[k].cache # "none" => ticks[k].store = "ok"
          /\ (ticks[k].pc \in {"store", "cache"} \/ ticks[k].store # "none")
               => <<m.MessageId, m.ReceiptHandle>> \in delivered)
  /\ [][ \A k \in DOMAIN ticks :
           LET m == ticks[k].batch[ticks[k].index] IN
           ( /\ acknowledge(k)
             /\ ~ret'.threw
             /\ m.Body.type \in {"CREATE", "UPDATE", "DELETE"} )
           => /\ <<m.MessageId, m.ReceiptHandle>> \in delivered
              /\ ticks[k].store = "ok"
              /\ m.MessageId \in DOMAIN stored
              /\ ticks[k].cache # "none"
              /\ ticks[k].invalidated # <<>>
              /\ ticks[k].invalidated[Len(ticks[k].invalidated)] = handlerScope(m.Body)
     ]_vars

\* C21 witness: a tick's deleteMessage has just acknowledged a message whose
\* Order Store call succeeded once.
C21_Witness ==
  /\ ret.op = "deleteMessage"
  /\ ~ret.threw
  /\ \E id \in acknowledged :
       /\ id \in DOMAIN stored
       /\ stored[id] = 1
       /\ id \in processedMessages

\* C22: when every message accepted since the last purge has been applied and
\* acknowledged and nothing is being processed or waiting for a retry,
\* getQueueAttributes reports ApproximateNumberOfMessages = 0 and
\* ApproximateNumberOfMessagesNotVisible = 0.
C22_DrainedQueueReportsZero ==
  ( /\ accepted # {}
    /\ \A a \in accepted : a.MessageId \in acknowledged /\ a.MessageId \in DOMAIN stored
    /\ ticks = <<>>
    /\ timers = <<>> )
  => /\ QueueAttributes.ApproximateNumberOfMessages = 0
     /\ QueueAttributes.ApproximateNumberOfMessagesNotVisible = 0

\* C23: when a tick is about to acknowledge a Create event that succeeded on
\* its first attempt, one Order Store call has succeeded for it and one cache
\* invalidation has been issued for it, invalidateOrderCache() of all lists.
C23_OneCreateOneInvalidation ==
  \A k \in DOMAIN ticks :
    LET m == ticks[k].batch[ticks[k].index] IN
    ( /\ m.Body.type = "CREATE"
      /\ returned[m.MessageId] = 0
      /\ ticks[k].pc = "ack"
      /\ ticks[k].store = "ok" )
    => /\ stored[m.MessageId] = 1
       /\ ticks[k].invalidated = <<"all">>

\* C24: while a tick handles an event whose Order Store call did not succeed,
\* no cache invalidation has been issued for the event in that attempt.
C24_NoInvalidationAfterStoreFailure ==
  \A k \in DOMAIN ticks :
    ticks[k].store # "ok" => ticks[k].invalidated = <<>>

\* C25: for every MessageId the Order Store call of the event has succeeded
\* at most once.
C25_AppliedAtMostOnce ==
  \A id \in DOMAIN stored : stored[id] <= 1

\* every message accepted since the start has been leased at least once
EveryAcceptedLeased ==
  \A m \in accepted : \E d \in delivered : d[1] = m.MessageId

\* every message whose Order Store operation succeeded has been acknowledged
EveryStoredAcknowledged ==
  \A id \in DOMAIN stored : id \in acknowledged

Starved(id) ==
  /\ \A d \in delivered : d[1] # id
  /\ \E i \in DOMAIN queue :
       /\ queue[i].MessageId = id
       /\ \E p \in Ids(queue) \ (processedMessages \cup {id}) :
            Cardinality({j \in 1..(i - 1) : queue[j].MessageId = p}) >= handlerBatchSize

\* no step of SpecLive ends a starvation: the violation of C26 does not come
\* from the clock's bound
StarvedForGood ==
  [][\A id \in 1..LiveMessages : Starved(id) => Starved(id)']_vars

\* C27: stop() leaves every tick in progress as it is, with its batch and its
\* position; a tick in progress can take its next step whether or not the
\* handler is running; and a new tick begins only while the handler is
\* running.
C27_StopLetsTickFinish ==
  /\ [](\A k \in DOMAIN ticks :
          ENABLED ( \/ processMessage(k)
                    \/ storeReturns(k, TRUE)
                    \/ cacheReturns(k, TRUE)
                    \/ acknowledge(k)
                    \/ catch(k) ))
  /\ [][ /\ tick => isRunning
         /\ (stop /\ UNCHANGED qvars) => ticks' = ticks
     ]_vars

\* C27 witness: the handler is stopped with no timer while a tick that leased
\* two messages has resolved the first and waits for the Order Store for the
\* second.
C27_Witness ==
  /\ ~isRunning
  /\ processingInterval = <<>>
  /\ \E k \in DOMAIN ticks :
       /\ Len(ticks[k].batch) = 2
       /\ ticks[k].index = 2
       /\ ticks[k].pc = "store"
       /\ ticks[k].batch[1].MessageId \notin Ids(processingQueue)

\* C28: whenever the interval timer is due the tick can run, whatever earlier
\* ticks are waiting for, and it leases the first handlerBatchSize messages
\* of the queue that are neither in flight nor processed.
C28_HungStoreCallBlocksNoTick ==
  /\ []((Idle /\ processingInterval # <<>> /\ processingInterval[1] <= now)
          => ENABLED tick)
  /\ [][ tick => /\ ret'.value = messagesToReceive(handlerBatchSize)
                 /\ processingQueue' = processingQueue \o ret'.value
     ]_vars

\* C28 witness: while the Order Store call of one tick is outstanding, a later
\* tick has leased another message and reached its own Order Store call.
C28_Witness ==
  /\ Len(ticks) = 2
  /\ ticks[1].pc = "store"
  /\ ticks[2].pc = "store"
  /\ ticks[1].batch[ticks[1].index].MessageId # ticks[2].batch[ticks[2].index].MessageId
  /\ Len(processingQueue) = 2

\* C29: at most one processMessages call is in progress at any time.
C29_OneTickAtATime ==
  Len(ticks) <= 1

StoreStarted(id) ==
  \/ id \in DOMAIN stored
  \/ \E k \in DOMAIN ticks :
       /\ ticks[k].batch[ticks[k].index].MessageId = id
       /\ ticks[k].pc \in {"store", "cache"} \/ ticks[k].store # "none"

StoreCompleted(id) ==
  \/ id \in DOMAIN stored
  \/ \E k \in DOMAIN ticks :
       /\ ticks[k].batch[ticks[k].index].MessageId = id
       /\ ticks[k].store # "none"

\* C30: for two messages A and B of one group in the queue, A accepted before
\* B and neither returned for retry, B's Order Store call has begun only if
\* A's has completed.
C30_StoreInEnqueueOrder ==
  \A i, j \in DOMAIN queue :
    ( /\ i < j
      /\ queue[i].Attributes.GroupId = queue[j].Attributes.GroupId
      /\ returned[queue[i].MessageId] = 0
      /\ returned[queue[j].MessageId] = 0
      /\ StoreStarted(queue[j].MessageId) )
    => StoreCompleted(queue[i].MessageId)

\* C31: in every reachable state no MessageId is in more than one of queue
\* (pending), processingQueue (in-flight) and processedMessages (done).
C31_ThreeDisjointSets ==
  /\ Ids(queue) \cap Ids(processingQueue) = {}
  /\ Ids(queue) \cap processedMessages = {}
  /\ Ids(processingQueue) \cap processedMessages = {}

\* the entries of queue that receiveMessage would consider: pending in the
\* sense of "eligible for lease"
Pending == {queue[i].MessageId : i \in {j \in DOMAIN queue :
              /\ queue[j].MessageId \notin Ids(processingQueue)
              /\ queue[j].MessageId \notin processedMessages}}

\* the same three sets with pending read as the eligible entries of queue
DisjointWithEligiblePending ==
  /\ Pending \cap Ids(processingQueue) = {}
  /\ Pending \cap processedMessages = {}
  /\ Ids(processingQueue) \cap processedMessages = {}

\* C33: receiveMessage(n) returns at most n messages; each of them was in
\* the queue and neither in flight nor processed just before the call; just
\* after the call each is in processingQueue, which grew by exactly the
\* messages returned.
C33_LeaseAtMostN ==
  [][\A n \in BatchSizes :
       receiveMessage(n) =>
         /\ Len(ret'.value) <= n
         /\ \A i \in DOMAIN ret'.value :
              /\ ret'.value[i] \in Range(queue)
              /\ ret'.value[i].MessageId \notin Ids(processingQueue)
              /\ ret'.value[i].MessageId \notin processedMessages
              /\ ret'.value[i] \in Range(processingQueue')
         /\ Len(processingQueue') = Len(processingQueue) + Len(ret'.value)]_vars

\* C33 witness: a tick leased handlerBatchSize messages and left another
\* pending message in the queue
C33_Witness ==
  /\ ret.op = "receiveMessage"
  /\ Len(ret.value) = handlerBatchSize
  /\ processingQueue = ret.value
  /\ Pending # {}

\* C34: after purgeQueue the queue holds, and receiveMessage leases, only
\* messages that sendMessage accepted after the purge.
C34_PurgeDiscardsRetries ==
  Ids(queue) \cup Ids(processingQueue) \subseteq {m.MessageId : m \in accepted}

\* C35: in every reachable state queue holds at most one entry per MessageId.
C35_OneEntryPerMessage == NoRepeatedId(queue)

\* C37: a lease ends only in a deleteMessage, returnMessage or purgeQueue
\* call, however much time passes, and no receiveMessage call leases a
\* message that is in flight.
C37_NoVisibilityTimeout ==
  [][ /\ (\E i \in DOMAIN processingQueue :
            \/ i > Len(processingQueue')
            \/ processingQueue'[i] # processingQueue[i])
         => \/ \E h \in Handles : deleteMessage(h)
            \/ \E h \in Handles : returnMessage(h)
            \/ purgeQueue
      /\ \A i \in DOMAIN processingQueue' :
            i > Len(processingQueue)
            => processingQueue'[i].MessageId \notin Ids(processingQueue) ]_vars

\* C37 witness: message 1 was leased before message 2 was sent, is still in
\* flight a deduplication window later, and no call was made since that send
C37_Witness ==
  /\ ret.op = "sendMessage" /\ ret.value.MessageId = 2
  /\ 1 \in Ids(processingQueue)
  /\ \E m \in accepted : m.MessageId = 2 /\ now >= m.Attributes.SentTimestamp + deduplicationWindowMs

\* C36: a sendMessage call that accepts its message while the handler is
\* stopped starts the handler (isRunning, and one interval timer a period
\* from now), also after stop(); a sendMessage call suppressed as a duplicate
\* leaves isRunning, the timer and the ticks as they are.
C36_EnqueueWakesHandler ==
  [][ idCounter' = idCounter + 1 =>
        IF queue' # queue
        THEN /\ isRunning'
             /\ ~isRunning => processingInterval' =
                                Append(processingInterval, now + processingIntervalMs)
             /\ isRunning => UNCHANGED hvars
        ELSE UNCHANGED hvars ]_vars

\* C36 witness: message 1 was accepted at the start, which started the
\* handler, and was never leased; the timer is now due one period after the
\* acceptance of message 2, much later: the handler was stopped in between
\* and runs again
C36_Witness ==
  /\ ret.op = "sendMessage" /\ ret.value.MessageId = 2
  /\ isRunning
  /\ now > StartTime + processingIntervalMs
  /\ processingInterval = <<now + processingIntervalMs>>
  /\ delivered = {}
  /\ \E m \in accepted : m.MessageId = 1 /\ m.Attributes.SentTimestamp = StartTime
  /\ \E m \in accepted : m.MessageId = 2 /\ m.Attributes.SentTimestamp = now

StatusOps == {"getStatus", "getQueueStats", "getQueueAttributes"}

\* C32: a getStatus, getQueueStats or getQueueAttributes call, whenever it is
\* made, leaves isRunning, the interval timer, queue, processingQueue,
\* processedMessages and deduplicationCache as they are.
C32_StatusReadsOnly ==
  [][ (ret'.op \in StatusOps /\ (ret.op # ret'.op \/ ret.value # ret'.value))
        => UNCHANGED <<isRunning, processingInterval, queue, processingQueue,
                       processedMessages, deduplicationCache>> ]_vars

\* C32 witness: getQueueStats answered while a tick waits for the Order Store,
\* with one message in flight and the handler running
C32_Witness ==
  /\ ret.op = "getQueueStats"
  /\ ret.value.status.isRunning
  /\ ret.value.queue.ApproximateNumberOfMessagesNotVisible > 0
  /\ processingQueue # <<>>
  /\ \E k \in DOMAIN ticks : ticks[k].pc = "store"

UnknownType(message) == message.Body.type \notin {"CREATE", "UPDATE", "DELETE"}

\* C38: a leased message of unknown type goes from the switch straight to
\* deleteMessage, which acknowledges it when its lease is there: no Order
\* Store call, no invalidateOrderCache call, and no retry is scheduled for it
\* (the catch block is entered only when deleteMessage threw, the lease having
\* been purged, and returnMessage then finds no lease either).
C38_UnknownTypeAcknowledged ==
  /\ [](\A k \in DOMAIN ticks :
          LET message == ticks[k].batch[ticks[k].index] IN
          UnknownType(message) =>
            /\ \/ ticks[k].pc \in {"begin", "ack"}
               \/ /\ ticks[k].pc = "catch"
                  /\ ret.op = "deleteMessage" /\ ret.threw
                  /\ message.ReceiptHandle \notin LeasedHandles
            /\ ticks[k].store = "none" /\ ticks[k].cache = "none"
            /\ ticks[k].invalidated = <<>>
            /\ returned[message.MessageId] = 0
            /\ TimersOf(message.MessageId) = {}
            /\ message.MessageId \notin DOMAIN stored)
  /\ [][\A k \in DOMAIN ticks :
          LET message == ticks[k].batch[ticks[k].index] IN
          UnknownType(message) =>
            /\ processMessage(k) => ticks'[k].pc = "ack"
            /\ (acknowledge(k) /\ message.ReceiptHandle \in LeasedHandles)
                 => message.MessageId \in acknowledged']_vars

\* C38 witness: a message of unknown type was acknowledged
C38_Witness ==
  \E m \in accepted :
    /\ UnknownType(m)
    /\ m.MessageId \in acknowledged
    /\ m.MessageId \in processedMessages
    /\ returned[m.MessageId] = 0

====
